---- MODULE Spec2Model ----
(***************************************************************************)
(* Model of the picanha-prices batch pipeline (src/main.py):               *)
(*   step_1 (fetch, dedup, sort, append to the ledger CSV)                 *)
(*   -> read_csv + step_2 (group prices per name, write aggregate CSV)     *)
(*   -> read_csv + plot_graph (filter by name, parse price lists, plot)    *)
(*   -> create_html_for_png_files (gallery of the PNG files).              *)
(* Text is modelled as a sequence of characters, so that stripping, comma   *)
(* removal, sorting, parsing and matching are computed.  An ASCII          *)
(* character is the one-character string; a Thai character is the string   *)
(* naming its code point ("U0E27" is U+0E27).                              *)
(* A CSV file is modelled as the sequence of its records, each record the  *)
(* tuple of its field texts (the csv quoting layer is not modelled).       *)
(* The gallery document is modelled as the bag of the elements of its      *)
(* body: their order is the order of os.listdir, which the file system     *)
(* chooses.                                                                *)
(***************************************************************************)
EXTENDS Integers, Sequences, FiniteSets, Bags, TLC

VARIABLES site, filters, pc, runs, clock, fetched, ledger, log, grouped,
          plotted, dir, html

vars == <<site, filters, pc, runs, clock, fetched, ledger, log, grouped,
          plotted, dir, html>>

----------------------------------------------------------------------------
(* Bounds of the model *)

\* number of URLs passed to step_1 (the list of main.py has 5 entries)
NumUrls == 2
\* largest number of product containers on one fetched page
MaxContainers == 2
\* number of times the pipeline is launched
MaxRuns == 2
\* calendar days the clock can show (day 1 .. MaxDay)
MaxDay == 2

----------------------------------------------------------------------------
(* Text helpers: Python str semantics on sequences of characters *)

\* code point of a character (Python compares str by code point)
Ord(c) ==
  CASE c = " " -> 32 [] c = "'" -> 39 [] c = "," -> 44 [] c = "-" -> 45
    [] c = "." -> 46
    [] c = "0" -> 48 [] c = "1" -> 49 [] c = "2" -> 50 [] c = "3" -> 51
    [] c = "4" -> 52 [] c = "5" -> 53 [] c = "6" -> 54 [] c = "7" -> 55
    [] c = "8" -> 56 [] c = "9" -> 57
    [] c = "A" -> 65 [] c = "N" -> 78 [] c = "P" -> 80 [] c = "W" -> 87
    [] c = "[" -> 91 [] c = "]" -> 93 [] c = "_" -> 95
    [] c = "a" -> 97 [] c = "b" -> 98 [] c = "c" -> 99 [] c = "w" -> 119
    [] c = "U0E01" -> 3585 [] c = "U0E04" -> 3588 [] c = "U0E19" -> 3609 [] c = "U0E1E" -> 3614
    [] c = "U0E21" -> 3617 [] c = "U0E22" -> 3618 [] c = "U0E25" -> 3621 [] c = "U0E27" -> 3623
    [] c = "U0E2A" -> 3626 [] c = "U0E2B" -> 3627 [] c = "U0E2D" -> 3629 [] c = "U0E31" -> 3633
    [] c = "U0E32" -> 3634 [] c = "U0E34" -> 3636 [] c = "U0E41" -> 3649 [] c = "U0E48" -> 3656
    [] OTHER -> 120

\* a < b for Python str: lexicographic by code point, a proper prefix is less
RECURSIVE StrLess(_, _)
StrLess(a, b) ==
  IF b = <<>> THEN FALSE
  ELSE IF a = <<>> THEN TRUE
  ELSE IF Ord(Head(a)) # Ord(Head(b)) THEN Ord(Head(a)) < Ord(Head(b))
  ELSE StrLess(Tail(a), Tail(b))

\* str.lstrip() / str.rstrip() / str.strip() for the whitespace " "
RECURSIVE lstrip(_)
lstrip(s) == IF s # <<>> /\ Head(s) = " " THEN lstrip(Tail(s)) ELSE s

RECURSIVE rstrip(_)
rstrip(s) ==
  IF s # <<>> /\ s[Len(s)] = " " THEN rstrip(SubSeq(s, 1, Len(s) - 1)) ELSE s

strip(s) == rstrip(lstrip(s))

\* str.replace(ch, '')
RECURSIVE remove_char(_, _)
remove_char(s, ch) ==
  IF s = <<>> THEN <<>>
  ELSE IF Head(s) = ch THEN remove_char(Tail(s), ch)
  ELSE <<Head(s)>> \o remove_char(Tail(s), ch)

\* str.split(ch): the pieces between the occurrences of ch (never empty list)
RECURSIVE split(_, _)
split(s, ch) ==
  IF s = <<>> THEN << <<>> >>
  ELSE LET rest == split(Tail(s), ch) IN
       IF Head(s) = ch THEN << <<>> >> \o rest
       ELSE << <<Head(s)>> \o Head(rest) >> \o Tail(rest)

\* ''.join(parts)
RECURSIVE join(_)
join(parts) == IF parts = <<>> THEN <<>> ELSE Head(parts) \o join(Tail(parts))

\* str.strip('[]'): strip leading and trailing characters that are [ or ]
RECURSIVE strip_brackets(_)
strip_brackets(s) ==
  IF s # <<>> /\ Head(s) \in {"[", "]"} THEN strip_brackets(Tail(s))
  ELSE IF s # <<>> /\ s[Len(s)] \in {"[", "]"}
       THEN strip_brackets(SubSeq(s, 1, Len(s) - 1))
  ELSE s

\* str.endswith(suffix)
endswith(s, suffix) ==
  /\ Len(s) >= Len(suffix)
  /\ SubSeq(s, Len(s) - Len(suffix) + 1, Len(s)) = suffix

\* one decimal digit as a character, and back
DigitChar(n) ==
  CASE n = 0 -> "0" [] n = 1 -> "1" [] n = 2 -> "2" [] n = 3 -> "3"
    [] n = 4 -> "4" [] n = 5 -> "5" [] n = 6 -> "6" [] n = 7 -> "7"
    [] n = 8 -> "8" [] OTHER -> "9"

Digits == {"0", "1", "2", "3", "4", "5", "6", "7", "8", "9"}

DigitVal(c) == Ord(c) - 48

\* str(n) / repr(n) of a non-negative int
RECURSIVE IntRepr(_)
IntRepr(n) ==
  IF n < 10 THEN <<DigitChar(n)>>
  ELSE IntRepr(n \div 10) \o <<DigitChar(n % 10)>>

\* the text is a non-empty run of decimal digits
IsIntText(s) == s # <<>> /\ \A i \in 1..Len(s) : s[i] \in Digits

\* int(s) of a run of decimal digits
RECURSIVE ParseInt(_)
ParseInt(s) ==
  IF s = <<>> THEN 0
  ELSE 10 * ParseInt(SubSeq(s, 1, Len(s) - 1)) + DigitVal(s[Len(s)])

----------------------------------------------------------------------------
(* The fetched pages *)

\* BeautifulSoup's find() returned None: the element is not in the container
NoElem == <<"None">>

\* product containers (raw texts of the name, price and brand elements) the
\* site can serve; each set is one scenario for the whole pipeline
SiteLedger ==
  { [name |-> <<"U0E27", "U0E32", "U0E01", "U0E34", "U0E27">>,
     price |-> <<"1", ",", "2">>, brand |-> <<"b">>],
    [name |-> <<"U0E27", "U0E32", "U0E01", "U0E34", "U0E27">>,
     price |-> <<"2">>,           brand |-> <<"b">>],
    [name |-> <<" ", "P">>,  price |-> <<"2">>,           brand |-> <<"b">>],
    [name |-> <<"P">>,       price |-> <<"2">>,           brand |-> NoElem] }

SiteNames ==
  { [name |-> <<"U0E27", "U0E32", "U0E01", "U0E34", "U0E27">>,
     price |-> <<"1", ",", "2">>, brand |-> <<"b">>],
    [name |-> <<" ", "P">>,  price |-> <<"2">>,           brand |-> <<"b">>],
    [name |-> <<"N", "A">>,  price |-> <<"2">>,           brand |-> <<"b">>] }

SiteBrands ==
  { [name |-> <<"U0E27", "U0E32", "U0E01", "U0E34", "U0E27">>,
     price |-> <<"2">>,           brand |-> <<"b">>],
    [name |-> <<"U0E27", "U0E32", "U0E01", "U0E34", "U0E27">>,
     price |-> <<"2">>,           brand |-> <<"c", " ">>],
    [name |-> NoElem,        price |-> <<"2">>,           brand |-> <<"c">>] }

SiteOne ==
  { [name |-> <<"U0E27", "U0E32", "U0E01", "U0E34", "U0E27">>,
     price |-> <<"2">>,           brand |-> <<"b">>] }

\* products with ASCII names, for plot_graph called with other filters
SitePlot ==
  { [name |-> <<"W", "w">>,  price |-> <<"2">>,           brand |-> <<"b">>],
    [name |-> <<" ", "P">>,  price |-> <<"2">>,           brand |-> <<"b">>] }

\* pages: up to MaxContainers product containers, in document order
Pages(catalog) == UNION { [1..n -> catalog] : n \in 0..MaxContainers }

\* outcome of requests.get + raise_for_status: failure or a page
Responses(catalog) ==
  {[ok |-> FALSE, page |-> <<>>]} \cup {[ok |-> TRUE, page |-> p] : p \in Pages(catalog)}

Urls == 1..NumUrls

Days == 1..MaxDay

\* datetime.now().strftime('%Y-%m-%d') on day d of January 2024
strftime(d) ==
  <<"2", "0", "2", "4", "-", "0", "1", "-">>
    \o (IF d < 10 THEN <<"0">> ELSE <<>>) \o IntRepr(d)

\* extract_row without line 24: the thousands separators stay in the price
extract_row_keep_commas(product) ==
  << strip(product.name), strip(product.price), strip(product.brand) >>

\* lines 22-26: the row extracted from one product container
extract_row(product) ==
  << strip(product.name), remove_char(strip(product.price), ","), strip(product.brand) >>

\* a container lacking an element: .text on None raises AttributeError
lacks_element(product) ==
  product.name = NoElem \/ product.price = NoElem \/ product.brand = NoElem

\* scrape_prices logging the failed request and raising it again
scrape_prices_reraise(url, resp) ==
  IF ~resp.ok
    THEN [raised |-> TRUE, rows |-> <<>>, logged |-> <<url>>]
  ELSE IF \E i \in 1..Len(resp.page) : lacks_element(resp.page[i])
    THEN [raised |-> TRUE, rows |-> <<>>, logged |-> <<>>]
  ELSE [raised |-> FALSE,
        rows   |-> [i \in 1..Len(resp.page) |-> extract_row(resp.page[i])],
        logged |-> <<>>]

\* scrape_prices catching the extraction failure too: a page with a container
\* lacking an element gives no rows and no exception
scrape_prices_catch_all(url, resp) ==
  IF ~resp.ok
    THEN [raised |-> FALSE, rows |-> <<>>, logged |-> <<url>>]
  ELSE IF \E i \in 1..Len(resp.page) : lacks_element(resp.page[i])
    THEN [raised |-> FALSE, rows |-> <<>>, logged |-> <<url>>]
  ELSE [raised |-> FALSE,
        rows   |-> [i \in 1..Len(resp.page) |-> extract_row(resp.page[i])],
        logged |-> <<>>]

\* scrape_prices(url) on the response resp: the rows returned, the error log
\* entries written, and whether an exception leaves the function
scrape_prices(url, resp) ==
  IF ~resp.ok
    THEN [raised |-> FALSE, rows |-> <<>>, logged |-> <<url>>]
  ELSE IF \E i \in 1..Len(resp.page) : lacks_element(resp.page[i])
    THEN [raised |-> TRUE, rows |-> <<>>, logged |-> <<>>]
  ELSE [raised |-> FALSE,
        rows   |-> [i \in 1..Len(resp.page) |-> extract_row(resp.page[i])],
        logged |-> <<>>]

\* lines 42-45: the loop of step_1 over urls i..NumUrls; resps[i] and days[i]
\* are what the network and the clock give for url i.  Stops at the first
\* url whose scrape raises.
RECURSIVE fetch_loop(_, _, _)
fetch_loop(i, resps, days) ==
  IF i > NumUrls
    THEN [raised |-> FALSE, data |-> <<>>, logged |-> <<>>, seen |-> <<>>]
  ELSE LET r == scrape_prices(i, resps[i]) IN
    IF r.raised
      THEN [raised |-> TRUE, data |-> <<>>, logged |-> <<>>,
            seen |-> << [resp |-> resps[i], today |-> <<>>] >>]
    ELSE LET today == strftime(days[i])
             rest  == fetch_loop(i + 1, resps, days)
         IN [raised |-> rest.raised,
             data   |-> [k \in 1..Len(r.rows) |-> r.rows[k] \o <<today>>] \o rest.data,
             logged |-> r.logged \o rest.logged,
             seen   |-> << [resp |-> resps[i], today |-> today] >> \o rest.seen]

\* drop_duplicates(subset=['Name', 'Date']): one row per name and date
RECURSIVE drop_duplicates_name_date(_)
drop_duplicates_name_date(rows) ==
  IF rows = <<>> THEN <<>>
  ELSE LET init == drop_duplicates_name_date(SubSeq(rows, 1, Len(rows) - 1))
           last == rows[Len(rows)]
       IN IF \E i \in 1..Len(init) : init[i][1] = last[1] /\ init[i][4] = last[4]
          THEN init
          ELSE Append(init, last)

\* DataFrame.drop_duplicates(): keep the first occurrence of every row
RECURSIVE drop_duplicates(_)
drop_duplicates(rows) ==
  IF rows = <<>> THEN <<>>
  ELSE LET init == drop_duplicates(SubSeq(rows, 1, Len(rows) - 1))
           last == rows[Len(rows)]
       IN IF \E i \in 1..Len(init) : init[i] = last THEN init
          ELSE Append(init, last)

\* insert row r after the rows whose name is <= r's name
RECURSIVE insert_by_name(_, _)
insert_by_name(sorted, r) ==
  IF sorted = <<>> THEN <<r>>
  ELSE IF StrLess(r[1], Head(sorted)[1]) THEN <<r>> \o sorted
  ELSE <<Head(sorted)>> \o insert_by_name(Tail(sorted), r)

\* the sort left out: the rows stay in fetch order
sort_values_skipped(rows) == rows

\* DataFrame.sort_values(by='Name'): ascending by name, ties in input order
\* (numpy's quicksort sorts runs of fewer than 16 elements by insertion)
RECURSIVE sort_values(_)
sort_values(rows) ==
  IF rows = <<>> THEN <<>>
  ELSE insert_by_name(sort_values(SubSeq(rows, 1, Len(rows) - 1)), rows[Len(rows)])

\* the header record of the ledger (columns of line 38)
columns ==
  << <<"N", "a", "m", "e">>, <<"P", "r", "i", "c", "e">>,
     <<"B", "r", "a", "n", "d">>, <<"D", "a", "t", "e">> >>

\* DataFrame.to_csv(f, header=..., index=False): the records written
to_csv(rows, header) == (IF header THEN <<columns>> ELSE <<>>) \o rows

\* header=True on every write
tell_ignored(file) == TRUE

\* line 60: f.tell() == 0 on a file opened for append
tell_is_zero(file) == file = <<>>

\* step_1 leaving out the rows the file already holds
ledger_block_merged(data, file) ==
  to_csv(sort_values(drop_duplicates(
           SelectSeq(data, LAMBDA r : \A i \in 1..Len(file) : file[i] # r))),
         tell_is_zero(file))

\* lines 47-60: what step_1 appends to the ledger file
ledger_block(data, file) ==
  to_csv(sort_values(drop_duplicates(data)), tell_is_zero(file))

\* file names in the results directory
ledger_csv ==
  <<"p","r","o","d","u","c","t","_","p","r","i","c","e",".","c","s","v">>
grouped_csv ==
  <<"g", "r", "o", "u", "p", "e", "d", "_", "p", "r", "o", "d", "u", "c", "t", "_", "p", "r", "i", "c", "e", "s", ".", "c", "s", "v">>

----------------------------------------------------------------------------
(* Aggregation: pd.read_csv of the ledger and step_2 *)

\* the texts pandas.read_csv reads as a missing value (its default na_values)
na_values ==
  { <<>>,
    <<"#", "N", "/", "A">>,
    <<"#", "N", "/", "A", " ", "N", "/", "A">>,
    <<"#", "N", "A">>,
    <<"-", "1", ".", "#", "I", "N", "D">>,
    <<"-", "1", ".", "#", "Q", "N", "A", "N">>,
    <<"-", "N", "a", "N">>,
    <<"-", "n", "a", "n">>,
    <<"1", ".", "#", "I", "N", "D">>,
    <<"1", ".", "#", "Q", "N", "A", "N">>,
    <<"<", "N", "A", ">">>,
    <<"N", "/", "A">>,
    <<"N", "A">>,
    <<"N", "U", "L", "L">>,
    <<"N", "a", "N">>,
    <<"N", "o", "n", "e">>,
    <<"n", "/", "a">>,
    <<"n", "a", "n">>,
    <<"n", "u", "l", "l">> }

\* a missing value (float nan) in a DataFrame cell
NaN == <<"nan_value">>

\* read_csv on one text cell of a column that stays text
read_cell(text) == IF text \in na_values THEN NaN ELSE text

\* pd.read_csv(file): the first record names the columns, the others are the
\* rows.  The Price column becomes int64 when every cell is a run of digits,
\* and stays text (object) otherwise.  Rows are <<Name, Price>> cells; the
\* other columns are not used after the read.
read_csv(file) ==
  LET body == Tail(file)
      ints == \A i \in 1..Len(body) : IsIntText(body[i][2])
  IN [dtype |-> IF ints THEN "int64" ELSE "object",
      rows  |-> [i \in 1..Len(body) |->
                   << read_cell(body[i][1]),
                      IF ints THEN IntRepr(ParseInt(body[i][2]))
                              ELSE read_cell(body[i][2]) >>]]

\* repr() of one Price cell inside a Python list
cell_repr(dtype, cell) ==
  IF dtype = "int64" THEN cell
  ELSE IF cell = NaN THEN <<"n", "a", "n">>
  ELSE <<"'">> \o cell \o <<"'">>

\* str(list): the textual list written to the Prices column
RECURSIVE list_repr_items(_, _)
list_repr_items(dtype, cells) ==
  IF cells = <<>> THEN <<>>
  ELSE IF Len(cells) = 1 THEN cell_repr(dtype, cells[1])
  ELSE cell_repr(dtype, cells[1]) \o <<",", " ">> \o list_repr_items(dtype, Tail(cells))

list_repr(dtype, cells) == <<"[">> \o list_repr_items(dtype, cells) \o <<"]">>

\* the cells of column 2 of the rows whose column 1 is key, in row order
RECURSIVE rows_of(_, _)
rows_of(rows, key) ==
  IF rows = <<>> THEN <<>>
  ELSE (IF Head(rows)[1] = key THEN <<Head(rows)[2]>> ELSE <<>>)
         \o rows_of(Tail(rows), key)

\* the group keys of groupby('Name'): the distinct names, missing names
\* dropped, ascending
RECURSIVE sorted_keys(_)
sorted_keys(names) ==
  IF names = {} THEN <<>>
  ELSE LET least == CHOOSE n \in names : \A m \in names : m = n \/ StrLess(n, m)
       IN <<least>> \o sorted_keys(names \ {least})

group_keys(df) ==
  sorted_keys({df.rows[i][1] : i \in 1..Len(df.rows)} \ {NaN})

\* the header record of the aggregate file (line 67)
grouped_columns ==
  << <<"N", "a", "m", "e">>, <<"P", "r", "i", "c", "e", "s">> >>

\* step_2(df): the records written to results/grouped_product_prices.csv
step_2(df) ==
  LET keys == group_keys(df) IN
  <<grouped_columns>> \o
    [k \in 1..Len(keys) |-> << keys[k], list_repr(df.dtype, rows_of(df.rows, keys[k])) >>]

----------------------------------------------------------------------------
(* Chart rendering: pd.read_csv of the aggregate file and plot_graph *)

\* line 209: the filters __main__ hands to plot_graph
search_str ==
  << <<"U0E1E", "U0E34", "U0E04", "U0E32", "U0E19", "U0E22", "U0E48", "U0E32">>,
     <<"U0E2A", "U0E31", "U0E19", "U0E04", "U0E2D">>,
     <<"U0E2A", "U0E31", "U0E19", "U0E19", "U0E2D", "U0E01">>,
     <<"U0E2A", "U0E31", "U0E19", "U0E41", "U0E2B", "U0E25", "U0E21">>,
     <<"U0E27", "U0E32", "U0E01", "U0E34", "U0E27">> >>

\* filter lists for plot_graph called on its own: literal filters and filters
\* with the character "."
FilterTexts == { <<"w">>, <<"W">>, <<"P">>, <<"W", ".">>, <<".">> }

FilterLists == UNION { [1..n -> FilterTexts] : n \in 1..2 }

\* re.search(pattern, text) for patterns of literal characters and "."
contains(text, pattern) ==
  \E i \in 0..(Len(text) - Len(pattern)) :
    \A j \in 1..Len(pattern) : pattern[j] = "." \/ pattern[j] = text[i + j]

\* float(y) for integer literals, surrounding whitespace allowed; -1 stands
\* for the ValueError raised on any other text
float(y) == IF IsIntText(strip(y)) THEN ParseInt(strip(y)) ELSE -1

\* line 85: the lambda applied to one Prices text
parse_prices(x) ==
  LET parts == split(strip_brackets(x), ",")
  IN [k \in 1..Len(parts) |-> float(join(split(parts[k], ",")))]

\* the rows of the aggregate table as read back on line 206
grouped_rows(file) ==
  [i \in 1..(Len(file) - 1) |-> << read_cell(file[i + 1][1]), file[i + 1][2] >>]

\* lines 82-97 for one filter: the series plotted, or the ValueError
plot_one(search_string, rows) ==
  LET idx    == {i \in 1..Len(rows) : contains(rows[i][1], search_string)}
      picked == [k \in 1..Cardinality(idx) |->
                   rows[CHOOSE i \in idx : Cardinality({j \in idx : j < i}) = k - 1]]
      series == [k \in 1..Len(picked) |-> << picked[k][1], parse_prices(picked[k][2]) >>]
  IN [raised |-> \E k \in 1..Len(series) : \E n \in 1..Len(series[k][2]) : series[k][2][n] = -1,
      series |-> series]

\* line 128: the file name of the chart of one filter
plot_png(search_string) ==
  search_string \o <<"_", "p", "l", "o", "t", ".", "p", "n", "g">>

\* plot_graph(search_strings, df): per filter, in order, the series plotted
\* and whether the chart was saved; the first ValueError ends the loop
RECURSIVE plot_graph(_, _)
plot_graph(search_strings, rows) ==
  IF search_strings = <<>> THEN [raised |-> FALSE, charts |-> <<>>]
  ELSE LET one == plot_one(Head(search_strings), rows) IN
       IF one.raised THEN [raised |-> TRUE, charts |-> <<>>]
       ELSE LET rest == plot_graph(Tail(search_strings), rows)
            IN [raised |-> rest.raised, charts |-> <<one.series>> \o rest.charts]

----------------------------------------------------------------------------
(* Gallery: create_html_for_png_files *)

dot_png == <<".", "p", "n", "g">>

\* os.path.join(directory, png_file) for directory 'results'
path_join(file) == <<"r", "e", "s", "u", "l", "t", "s", "/">> \o file

\* endswith('png'): the dot of the extension left out
png_files_no_dot(files) == {file \in files : endswith(file, <<"p", "n", "g">>)}

\* line 135: the files of the directory whose name ends in .png
png_files(files) == {file \in files : endswith(file, dot_png)}

\* lines 167-170: the elements added to the document body, per PNG file: a
\* heading, an image reference and a line break
html_body(pngs) ==
  SetToBag({ <<"h2", file, <<>> >> : file \in pngs })
    (+) SetToBag({ <<"img", path_join(file), file>> : file \in pngs })
    (+) (IF pngs = {} THEN EmptyBag
         ELSE [e \in { <<"br", <<>>, <<>> >> } |-> Cardinality(pngs)])

\* the body of plot_gallery.html for the files of the directory
create_html_for_png_files(files) == html_body(png_files(files))

----------------------------------------------------------------------------
(* The pipeline of __main__, launched up to MaxRuns times *)

\* files that may lie in the results directory before the first launch
stray_files == { <<"a", ".", "p", "n", "g">>, <<"a", "p", "n", "g">> }

Init ==
  /\ pc = "step_1"
  /\ runs = 1
  /\ clock = 1
  /\ fetched = <<>>
  /\ ledger = <<>>
  /\ log = <<>>
  /\ grouped = <<>>
  /\ plotted = <<>>
  /\ \/ site \in {SiteLedger, SiteNames, SiteBrands} /\ dir = {}
     \/ site = SiteOne /\ dir \in SUBSET stray_files
  /\ filters = search_str
  /\ html = EmptyBag

\* plot_graph as a function of its argument: the pipeline with a filter list
\* other than the one of line 209
InitPlot ==
  /\ pc = "step_1"
  /\ runs = 1
  /\ clock = 1
  /\ fetched = <<>>
  /\ ledger = <<>>
  /\ log = <<>>
  /\ grouped = <<>>
  /\ plotted = <<>>
  /\ site = SitePlot
  /\ dir = {}
  /\ filters \in FilterLists
  /\ html = EmptyBag

\* line 197: step_1(urls)
Step1 ==
  /\ pc = "step_1"
  /\ \E resps \in [Urls -> Responses(site)], days \in [Urls -> Days] :
       /\ days[1] >= clock
       /\ \A i \in Urls : i > 1 => days[i] >= days[i - 1]
       /\ LET r     == fetch_loop(1, resps, days)
              dated == IF r.raised THEN Len(r.seen) - 1 ELSE Len(r.seen)
          IN /\ fetched' = r.seen
             /\ log' = log \o r.logged
             /\ clock' = IF dated = 0 THEN clock ELSE days[dated]
             /\ IF r.raised
                  THEN /\ pc' = "crashed"
                       /\ UNCHANGED <<ledger, dir>>
                  ELSE /\ pc' = "step_2"
                       /\ ledger' = ledger \o ledger_block(r.data, ledger)
                       /\ dir' = dir \cup {ledger_csv}
  /\ UNCHANGED <<site, filters, runs, grouped, plotted, html>>

\* lines 200-203: read the ledger and write the aggregate file
Step2 ==
  /\ pc = "step_2"
  /\ grouped' = step_2(read_csv(ledger))
  /\ dir' = dir \cup {grouped_csv}
  /\ pc' = "plot_graph"
  /\ fetched' = <<>>
  /\ UNCHANGED <<site, filters, runs, clock, ledger, log, plotted, html>>

\* lines 206-210: read the aggregate file and plot one chart per filter
PlotGraph ==
  /\ pc = "plot_graph"
  /\ LET r == plot_graph(filters, grouped_rows(grouped)) IN
       /\ plotted' = r.charts
       /\ dir' = dir \cup {plot_png(filters[k]) : k \in 1..Len(r.charts)}
       /\ pc' = IF r.raised THEN "crashed" ELSE "create_html"
  /\ UNCHANGED <<site, filters, runs, clock, fetched, ledger, log, grouped, html>>

\* lines 213-216: write the gallery of the results directory
CreateHtml ==
  /\ pc = "create_html"
  /\ html' = create_html_for_png_files(dir)
  /\ pc' = "done"
  /\ UNCHANGED <<site, filters, runs, clock, fetched, ledger, log, grouped, plotted, dir>>

\* the pipeline is launched again: a new process,
\* with the files of the earlier runs on disk
Rerun ==
  /\ pc \in {"done", "crashed"}
  /\ runs < MaxRuns
  /\ runs' = runs + 1
  /\ pc' = "step_1"
  /\ fetched' = <<>>
  /\ plotted' = <<>>
  /\ UNCHANGED <<site, filters, clock, ledger, log, grouped, dir, html>>

Next == Step1 \/ Step2 \/ PlotGraph \/ CreateHtml \/ Rerun

Spec == Init /\ [][Next]_vars

SpecPlot == InitPlot /\ [][Next]_vars

----------------------------------------------------------------------------
(* Vocabulary of the properties *)

\* the data records of a ledger file (all but header records)
DataRows(file) == SelectSeq(file, LAMBDA r : r # columns)

\* number of occurrences of x in the sequence seq
Count(x, seq) == Cardinality({i \in 1..Len(seq) : seq[i] = x})

\* a step in which step_1 returns / ends, normally or by an exception
Step1Returns == pc = "step_1" /\ pc' = "step_2"
Step1Ends == pc = "step_1" /\ pc' # "step_1"

\* the records step_1 appended to the ledger file in this step
Appended == SubSeq(ledger', Len(ledger) + 1, Len(ledger'))

\* the url indices whose request failed / whose page lacks an element
FailedUrls(seen) == {i \in 1..Len(seen) : ~seen[i].resp.ok}
BrokenUrls(seen) ==
  {i \in 1..Len(seen) :
     /\ seen[i].resp.ok
     /\ \E k \in 1..Len(seen[i].resp.page) :
          NoElem \in {seen[i].resp.page[k].name, seen[i].resp.page[k].price,
                      seen[i].resp.page[k].brand}}

\* the observations (name, price, brand, date) of the pages fetched in a run
RunRows(seen) ==
  UNION { { extract_row(seen[i].resp.page[k]) \o <<seen[i].today>> :
              k \in 1..Len(seen[i].resp.page) } :
          i \in {j \in 1..Len(seen) : seen[j].resp.ok} }

\* the names of the records are non-decreasing
SortedByName(rows) ==
  \A i, j \in 1..Len(rows) : i < j => ~StrLess(rows[j][1], rows[i][1])

\* the aggregate file is the one step_2 wrote from the current ledger
AggregateCurrent == pc \in {"plot_graph", "create_html", "done"}

\* pattern occurs in text as a literal substring
IsSubstring(pattern, text) ==
  \E i \in 0..(Len(text) - Len(pattern)) :
    SubSeq(text, i + 1, i + Len(pattern)) = pattern

----------------------------------------------------------------------------
(* Properties *)

\* C1: a url whose request fails gives no rows, gets exactly one error log
\* entry and raises nothing: step_1 goes on to the remaining urls, only a
\* page lacking an element ends it, and when it returns the records it
\* appended are exactly the observations of the urls that were fetched.
FailedFetchIsolated ==
  [][Step1Ends =>
       /\ \A i \in FailedUrls(fetched') : Count(i, SubSeq(log', Len(log) + 1, Len(log'))) = 1
       /\ Len(log') = Len(log) + Cardinality(FailedUrls(fetched'))
       /\ BrokenUrls(fetched') = {} => (pc' = "step_2" /\ Len(fetched') = NumUrls)
       /\ pc' = "step_2" =>
            {Appended[k] : k \in 1..Len(Appended)} \ {columns} = RunRows(fetched')]_vars

\* C1 witness: the first url failed, the second gave rows, and they were written
FailedFetchIsolatedWitness ==
  /\ pc = "step_2"
  /\ Len(fetched) = 2
  /\ ~fetched[1].resp.ok
  /\ fetched[2].resp.ok /\ Len(fetched[2].resp.page) > 0
  /\ log # <<>> /\ log[Len(log)] = 1
  /\ Len(ledger) > 1

\* C2: a run never deduplicates against the file: every observation of a run
\* occurs in the ledger once more after the run than before it, so a rerun
\* with the same data on the same date doubles every observation.
RerunDuplicatesRows ==
  [][Step1Returns =>
       \A r \in RunRows(fetched') : Count(r, ledger') = Count(r, ledger) + 1]_vars

\* C2 witness: after the second run an observation of that run is in the file twice
RerunDuplicatesRowsWitness ==
  /\ pc = "step_2" /\ runs = 2
  /\ \E r \in RunRows(fetched) : Count(r, ledger) = 2

\* C3 as stated: the data records of the ledger file are non-decreasing by name
LedgerSortedByName == SortedByName(DataRows(ledger))

\* C3 amended: the records one run appends are non-decreasing by name, and the
\* whole file is when the run wrote to an empty file
RunBlockSortedByName ==
  [][Step1Returns =>
       /\ SortedByName(DataRows(Appended))
       /\ ledger = <<>> => SortedByName(DataRows(ledger'))]_vars

\* C3 witness: a page listed the wagyu product before P and the run wrote P
\* before it
RunBlockSortedByNameWitness ==
  /\ pc = "step_2"
  /\ fetched[1].resp.ok /\ Len(fetched[1].resp.page) = 2
  /\ fetched[1].resp.page[1].name = <<"U0E27", "U0E32", "U0E01", "U0E34", "U0E27">>
  /\ fetched[1].resp.page[2].name = <<" ", "P">>
  /\ ledger[Len(ledger) - 1][1] = <<"P">>
  /\ ledger[Len(ledger)][1] = <<"U0E27", "U0E32", "U0E01", "U0E34", "U0E27">>

\* C4: the records one run appends hold every observation fetched in the run
\* exactly once, rows equal in all four fields once, rows differing in any
\* field all of them.
RunRowsUnique ==
  [][Step1Returns =>
       \A r \in RunRows(fetched') : Count(r, Appended) = 1]_vars

\* C4 witness: one observation fetched from both urls and another of the same
\* name and date at a different price; the run wrote two records
RunRowsUniqueWitness ==
  /\ pc = "step_2" /\ runs = 1
  /\ Len(fetched) = 2
  /\ fetched[1].resp.ok /\ fetched[2].resp.ok
  /\ Len(fetched[1].resp.page) = 2 /\ Len(fetched[2].resp.page) = 1
  /\ fetched[1].resp.page[1] = fetched[2].resp.page[1]
  /\ fetched[1].today = fetched[2].today
  /\ fetched[1].resp.page[1].name = fetched[1].resp.page[2].name
  /\ fetched[1].resp.page[1].price # fetched[1].resp.page[2].price
  /\ Len(ledger) = 3

\* C5: the header is written exactly when the file is empty, so the ledger
\* file has the header once, as its first record, after any runs.
HeaderExactlyOnce ==
  /\ [](/\ ledger # <<>> => (ledger[1] = columns /\ Count(columns, ledger) = 1)
        /\ pc \in {"step_2", "plot_graph", "create_html", "done"} => ledger # <<>>)
  /\ [][Step1Returns => (Count(columns, Appended) = 1 <=> ledger = <<>>)]_vars

\* C5 witness: two runs that fetched no row left a file of one header record
HeaderExactlyOnceWitness ==
  /\ pc = "step_2" /\ runs = 2
  /\ ledger = <<columns>>

\* C6 as stated: the aggregate table has one row per distinct name of the
\* ledger, with the prices of that name's ledger records in ledger order
AggregateOneRowPerName ==
  AggregateCurrent =>
    LET rows == DataRows(ledger) IN
    /\ {grouped[i][1] : i \in 2..Len(grouped)} = {rows[i][1] : i \in 1..Len(rows)}
    /\ \A i, j \in 2..Len(grouped) : grouped[i][1] = grouped[j][1] => i = j
    /\ \A i \in 2..Len(grouped) :
         grouped[i][2] = list_repr("int64", rows_of(rows, grouped[i][1]))

\* C7: every price list of the aggregate table parses to one number per ledger
\* record of that name, the numbers being the prices; a price fetched as
\* "1,2" is in the ledger without its separator and parses to one number.
PriceListsParse ==
  AggregateCurrent =>
    LET rows == DataRows(ledger) IN
    /\ \A i \in 1..Len(rows) : IsIntText(rows[i][2])
    /\ \A i \in 2..Len(grouped) :
         LET prices == rows_of(rows, grouped[i][1])
         IN parse_prices(grouped[i][2]) = [k \in 1..Len(prices) |-> ParseInt(prices[k])]

\* C7 witness: a chart shows a product with the prices 12 and 2
PriceListsParseWitness ==
  /\ pc = "create_html"
  /\ \E k \in 1..Len(plotted) : \E n \in 1..Len(plotted[k]) :
       plotted[k][n][2] = <<12, 2>>

\* C8 as stated: the series of a filter are the products whose name has the
\* filter as a substring, each once, in table order
ChartShowsSubstringMatches ==
  pc \in {"create_html", "done"} =>
    \A k \in 1..Len(filters) :
      LET HasFilter(row) == IsSubstring(filters[k], row[1])
          matching == SelectSeq(Tail(grouped), HasFilter)
      IN /\ Len(plotted[k]) = Len(matching)
         /\ \A n \in 1..Len(matching) : plotted[k][n][1] = matching[n][1]

\* C9: the gallery has one heading and one image reference per file of the
\* directory whose name ends in .png, and nothing for any other file.
GalleryOnePerPng ==
  pc = "done" =>
    LET pngs     == {file \in dir : Len(file) >= 4 /\ SubSeq(file, Len(file) - 3, Len(file)) = dot_png}
        headings == {e \in BagToSet(html) : e[1] = "h2"}
        images   == {e \in BagToSet(html) : e[1] = "img"}
    IN /\ \A e \in headings \cup images : CopiesIn(e, html) = 1
       /\ Cardinality(headings) = Cardinality(pngs)
       /\ Cardinality(images) = Cardinality(pngs)
       /\ \A file \in pngs :
            /\ Cardinality({e \in headings : e[2] = file}) = 1
            /\ Cardinality({e \in images : e[3] = file /\ e[2] = path_join(file)}) = 1
       /\ \A e \in headings : e[2] \in pngs
       /\ \A e \in images : e[3] \in pngs

\* C9 witness: a directory with a.png, apng, the two csv files and the five
\* charts gave a gallery of six headings
GalleryOnePerPngWitness ==
  /\ pc = "done"
  /\ stray_files \subseteq dir
  /\ ledger_csv \in dir /\ grouped_csv \in dir
  /\ Cardinality({e \in BagToSet(html) : e[1] = "h2"}) = 6

\* C10: a fetched page with a container lacking an element ends step_1 by the
\* exception; the run is over and no file but the log has changed, whatever
\* was extracted before.
BrokenPageAbortsRun ==
  [][(Step1Ends /\ BrokenUrls(fetched') # {}) =>
       /\ pc' = "crashed"
       /\ ledger' = ledger
       /\ grouped' = grouped /\ dir' = dir /\ html' = html]_vars

\* C10 witness: in the second run the first url gave a row, the second url's
\* page had a good container before the one lacking an element
BrokenPageAbortsRunWitness ==
  /\ pc = "crashed" /\ runs = 2
  /\ Len(fetched) = 2
  /\ fetched[1].resp.ok /\ Len(fetched[1].resp.page) > 0
  /\ Len(fetched[2].resp.page) = 2
  /\ ~lacks_element(fetched[2].resp.page[1])
  /\ lacks_element(fetched[2].resp.page[2])
  /\ Len(ledger) > 1

====
